---- MODULE Spec2Model ----
(***************************************************************************)
(* Wage normalization and reconciliation pipeline of project/pipeline.py:  *)
(* transform_h1b_data, transform_oews_data, merge_datasets and the         *)
(* __main__ script that sequences them and saves the three tables.         *)
(*                                                                         *)
(* A DataFrame is a record [columns, rows]: columns is the header, a       *)
(* sequence of column names, and each row is a sequence of cells aligned   *)
(* with the header.  Text is a sequence of one-character strings, so that  *)
(* lower(), strip(), split('.') and replace(' ', '_') are computed         *)
(* character by character.  Numbers are exact rationals, so that the       *)
(* group mean is computed exactly.                                         *)
(***************************************************************************)
EXTENDS Integers, Sequences, FiniteSets, TLC

\* ------------------------------------------------------------------ bounds
\* Largest number of rows of the raw H1B table.
MaxH1BRows == 2
\* Largest number of rows of the raw OEWS table.
MaxOewsRows == 1
\* Largest number of rows of either table handed directly to merge_datasets.
MaxMergeRows == 2

\* ------------------------------------------------------------------ state
VARIABLES
  h1b_df,             \* the caller's raw H1B table
  oews_df,            \* the caller's raw OEWS table
  h1b_transformed,    \* the table returned by transform_h1b_data
  relevant_job_codes, \* the job codes of h1b_transformed
  oews_transformed,   \* the table returned by transform_oews_data
  final_df,           \* the table returned by merge_datasets
  db,                 \* the names of the tables written to the database
  pc,                 \* the position of the script
  wage_row,           \* the wage and unit standardize_wage is applied to
  annual              \* what standardize_wage returned

vars == <<h1b_df, oews_df, h1b_transformed, relevant_job_codes, oews_transformed,
          final_df, db, pc, wage_row, annual>>

\* ------------------------------------------------------------------ text
\* The characters that occur in the model, in code point order.
Alphabet ==
  <<" ", "*", "-", ".", "0", "1", "2", "3", "4", "5", "6", "7", "8", "9",
    "A", "B", "C", "D", "E", "F", "G", "H", "I", "J", "K", "L", "M",
    "N", "O", "P", "Q", "R", "S", "T", "U", "V", "W", "X", "Y", "Z",
    "_",
    "a", "b", "c", "d", "e", "f", "g", "h", "i", "j", "k", "l", "m",
    "n", "o", "p", "q", "r", "s", "t", "u", "v", "w", "x", "y", "z">>

\* the code point order of a character: its place in Alphabet
Ord == [c \in {Alphabet[i] : i \in 1..Len(Alphabet)} |->
          CHOOSE i \in 1..Len(Alphabet) : Alphabet[i] = c]

IsDigit(c) == Ord[c] >= Ord["0"] /\ Ord[c] <= Ord["9"]

\* str.lower() on one character
LowerChar ==
  [c \in DOMAIN Ord |->
     IF Ord[c] >= Ord["A"] /\ Ord[c] <= Ord["Z"]
     THEN Alphabet[Ord[c] - Ord["A"] + Ord["a"]] ELSE c]

\* str.upper() on one character
UpperChar ==
  [c \in DOMAIN Ord |->
     IF Ord[c] >= Ord["a"] /\ Ord[c] <= Ord["z"]
     THEN Alphabet[Ord[c] - Ord["a"] + Ord["A"]] ELSE c]

\* str.lower()
Lower(s) == [i \in 1..Len(s) |-> LowerChar[s[i]]]

\* str.upper()
Upper(s) == [i \in 1..Len(s) |-> UpperChar[s[i]]]

\* str.replace(" ", "_")
ReplaceSpace(s) == [i \in 1..Len(s) |-> IF s[i] = " " THEN "_" ELSE s[i]]

\* str.strip(): drops the leading and the trailing blanks
Strip(s) ==
  LET nonblank == {i \in 1..Len(s) : s[i] # " "}
  IN IF nonblank = {} THEN <<>>
     ELSE LET lo == CHOOSE i \in nonblank : \A j \in nonblank : i <= j
              hi == CHOOSE i \in nonblank : \A j \in nonblank : i >= j
          IN SubSeq(s, lo, hi)

\* str.split('.')[0]: the text before the first '.'
SplitDot0(s) ==
  LET dots == {i \in 1..Len(s) : s[i] = "."}
  IN IF dots = {} THEN s
     ELSE SubSeq(s, 1, (CHOOSE i \in dots : \A j \in dots : i <= j) - 1)

\* pat occurs in s as a contiguous substring
Contains(s, pat) ==
  \E k \in 0..(Len(s) - Len(pat)) : SubSeq(s, k + 1, k + Len(pat)) = pat

\* s sorts strictly before t (Python's order on str: by code point)
StrLess(s, t) ==
  \E k \in 1..(Len(t)) :
     /\ k <= Len(s) + 1
     /\ \A j \in 1..(k - 1) : s[j] = t[j]
     /\ \/ k = Len(s) + 1
        \/ k <= Len(s) /\ Ord[s[k]] < Ord[t[k]]

RECURSIVE DigitsValue(_)
\* the integer written by a sequence of digits
DigitsValue(s) ==
  IF s = <<>> THEN 0
  ELSE 10 * DigitsValue(SubSeq(s, 1, Len(s) - 1)) + (Ord[s[Len(s)]] - Ord["0"])

\* ------------------------------------------------------------------ cells
RECURSIVE GCD(_, _)
GCD(a, b) == IF b = 0 THEN a ELSE GCD(b, a % b)

Abs(n) == IF n < 0 THEN -n ELSE n

\* a number n/d in lowest terms, d > 0
Num(n, d) ==
  LET g == GCD(Abs(n), d)
  IN [t |-> "num", n |-> n \div g, d |-> d \div g]

\* a whole number
Int1(n) == [t |-> "num", n |-> n, d |-> 1]

\* a text cell
Str(s) == [t |-> "str", s |-> s]

\* a missing cell: NaN, None and NaT
NaN == [t |-> "nan"]

\* a date cell
Date(y, m, d) == [t |-> "date", y |-> y, m |-> m, d |-> d]

IsNum(c) == c.t = "num"

IsStr(c) == c.t = "str"

\* pd.isnull / pd.notnull
IsNull(c) == c.t = "nan"

RMul(a, k) == Num(a.n * k, a.d)

RSub(a, b) == Num(a.n * b.d - b.n * a.d, a.d * b.d)

RAdd(a, b) == Num(a.n * b.d + b.n * a.d, a.d * b.d)

RDiv(a, k) == Num(a.n, a.d * k)

\* a <= b on numbers
RLeq(a, b) == a.n * b.d <= b.n * a.d

\* pd.to_numeric(errors='coerce') on one cell: a number stays, a text of
\* digits is read, anything else becomes NaN
ToNumeric(c) ==
  IF IsNum(c) THEN c
  ELSE IF IsStr(c) /\ c.s # <<>> /\ \A i \in 1..Len(c.s) : IsDigit(c.s[i])
       THEN Int1(DigitsValue(c.s))
       ELSE NaN

\* pd.to_datetime(errors='coerce') on one cell: a date stays, a text
\* YYYY-MM-DD is read, anything else becomes NaT
ToDatetime(c) ==
  IF c.t = "date" THEN c
  ELSE IF /\ IsStr(c)
          /\ Len(c.s) = 10
          /\ c.s[5] = "-" /\ c.s[8] = "-"
          /\ \A i \in {1, 2, 3, 4, 6, 7, 9, 10} : IsDigit(c.s[i])
       THEN Date(DigitsValue(SubSeq(c.s, 1, 4)), DigitsValue(SubSeq(c.s, 6, 7)),
                 DigitsValue(SubSeq(c.s, 9, 10)))
       ELSE NaN

\* a <= b on dates
DateLeq(a, b) ==
  \/ a.y < b.y
  \/ a.y = b.y /\ a.m < b.m
  \/ a.y = b.y /\ a.m = b.m /\ a.d <= b.d

\* Series.astype(str) on one cell of a column of codes, which holds text or
\* is missing: a text stays, a missing value becomes the text 'nan'
AsTypeStr(c) == IF IsNull(c) THEN Str(<<"n", "a", "n">>) ELSE c

\* .astype(str).str.split('.').str[0].str.strip() on one cell
StandardizeCode(c) == Str(Strip(SplitDot0(AsTypeStr(c).s)))

\* ------------------------------------------------------------ data frames
\* [col.lower().replace(" ", "_") for col in df.columns]
NormalizeColumns(cols) == [i \in 1..Len(cols) |-> ReplaceSpace(Lower(cols[i]))]

HasCol(df, name) == \E i \in 1..Len(df.columns) : df.columns[i] = name

ColIndex(df, name) ==
  CHOOSE i \in 1..Len(df.columns) :
    df.columns[i] = name /\ \A j \in 1..(i - 1) : df.columns[j] # name

\* df.rename(columns={from: to}) on the header
RenameCol(cols, from, to) == [i \in 1..Len(cols) |-> IF cols[i] = from THEN to ELSE cols[i]]

\* df[name] = f(row) on the existing column at index c
SetCol(df, c, F(_)) ==
  [columns |-> df.columns,
   rows |-> [r \in 1..Len(df.rows) |-> [df.rows[r] EXCEPT ![c] = F(df.rows[r])]]]

\* df[name] = f(row) for a new column
AddCol(df, name, F(_)) ==
  [columns |-> Append(df.columns, name),
   rows |-> [r \in 1..Len(df.rows) |-> Append(df.rows[r], F(df.rows[r]))]]

\* df[mask]
Where(df, Keep(_)) == [columns |-> df.columns, rows |-> SelectSeq(df.rows, Keep)]

\* df[[names]]
Project(df, names) ==
  LET idx == [i \in 1..Len(names) |-> ColIndex(df, names[i])]
  IN [columns |-> names,
      rows |-> [r \in 1..Len(df.rows) |-> [i \in 1..Len(names) |-> df.rows[r][idx[i]]]]]

\* the job codes of a table that has a job_code column
JobCodes(df) ==
  LET i == ColIndex(df, <<"j", "o", "b", "_", "c", "o", "d", "e">>)
  IN {df.rows[r][i] : r \in 1..Len(df.rows)}

\* what a function gives when it raises
Raised == [raised |-> TRUE]

\* ---------------------------------------------------- transform_h1b_data
target_companies == {<<"m", "i", "c", "r", "o", "s", "o", "f", "t">>, <<"g", "o", "o", "g", "l", "e", " ", "l", "l", "c">>, <<"a", "m", "a", "z", "o", "n", " ", "w", "e", "b", " ", "s", "e", "r", "v", "i", "c", "e", "s">>}

MinWage == 20000

MaxWage == 300000

HoursPerYear == 2080

WeeksPerYear == 52

MonthsPerYear == 12

WindowStart == Date(2023, 4, 1)

WindowEnd == Date(2023, 6, 30)

\* wage * k
Times(wage, k) == IF IsNum(wage) THEN RMul(wage, k) ELSE wage

\* The inner function standardize_wage, on the two cells of the row it
\* reads.  wage_rate_of_pay_from is a numeric column, so wage is a number or
\* NaN.  A unit that is neither text nor missing has no lower(): the call
\* raises.
standardize_wage(wage, unit) ==
  IF ~IsNull(unit) /\ ~IsStr(unit) THEN Raised
  ELSE LET u == IF ~IsNull(unit) THEN Lower(unit.s) ELSE <<>>
       IN IF u = <<"h", "o", "u", "r">> THEN Times(wage, HoursPerYear)
          ELSE IF u = <<"w", "e", "e", "k">> THEN Times(wage, WeeksPerYear)
          ELSE IF u = <<"m", "o", "n", "t", "h">> THEN Times(wage, MonthsPerYear)
          ELSE IF u = <<"y", "e", "a", "r">> THEN wage
          ELSE wage

\* the outlier filter without its lower limit
InWageRange_NoFloor(w) == IsNum(w) /\ RLeq(w, Int1(MaxWage))

\* (annual_wage >= 20000) & (annual_wage <= 300000); a comparison with NaN
\* is False
InWageRange(w) == IsNum(w) /\ RLeq(Int1(MinWage), w) /\ RLeq(w, Int1(MaxWage))

RECURSIVE SumCells(_)
SumCells(cells) ==
  IF cells = <<>> THEN Int1(0)
  ELSE RAdd(cells[1], SumCells(Tail(cells)))

\* Series.mean()
Mean(cells) == RDiv(SumCells(cells), Len(cells))

\* the order of group keys: tuples of texts, compared left to right
RECURSIVE KeyLess(_, _)
KeyLess(k1, k2) ==
  IF k1 = <<>> THEN FALSE
  ELSE \/ StrLess(k1[1].s, k2[1].s)
       \/ k1[1] = k2[1] /\ KeyLess(Tail(k1), Tail(k2))

RECURSIVE SortKeys(_)
SortKeys(keys) ==
  IF keys = {} THEN <<>>
  ELSE LET first == CHOOSE k \in keys : \A o \in keys \ {k} : KeyLess(k, o)
       IN <<first>> \o SortKeys(keys \ {first})

\* df.groupby(by, as_index=False).agg({value: 'mean'}): a row with a missing
\* key is left out (dropna=True), the groups come out in key order, and the
\* result has the key columns followed by the mean.
GroupByMean(df, by, value) ==
  LET idx == [i \in 1..Len(by) |-> ColIndex(df, by[i])]
      v == ColIndex(df, value)
      \* each kept row as its key and its value
      pairs == [r \in 1..Len(df.rows) |->
                  [key |-> [i \in 1..Len(by) |-> df.rows[r][idx[i]]], val |-> df.rows[r][v]]]
      kept == SelectSeq(pairs, LAMBDA p : \A i \in 1..Len(by) : ~IsNull(p.key[i]))
      keys == SortKeys({kept[r].key : r \in 1..Len(kept)})
      Values(k) == LET members == SelectSeq(kept, LAMBDA p : p.key = k)
                   IN [r \in 1..Len(members) |-> members[r].val]
  IN [columns |-> Append(by, value),
      rows |-> [g \in 1..Len(keys) |-> Append(keys[g], Mean(Values(keys[g])))]]

\* df[df['case_status'].str.strip().str.upper() == 'CERTIFIED']
KeepCertified(df) ==
  LET i == ColIndex(df, <<"c", "a", "s", "e", "_", "s", "t", "a", "t", "u", "s">>)
  IN Where(df, LAMBDA row : IsStr(row[i]) /\ Upper(Strip(row[i].s)) = <<"C", "E", "R", "T", "I", "F", "I", "E", "D">>)

\* df[df['employer_name'].str.contains('|'.join(target_companies), case=False, na=False)]
KeepTargetCompanies(df) ==
  LET i == ColIndex(df, <<"e", "m", "p", "l", "o", "y", "e", "r", "_", "n", "a", "m", "e">>)
  IN Where(df, LAMBDA row :
        IsStr(row[i]) /\ \E t \in target_companies : Contains(Lower(row[i].s), t))

\* received_date parsed, then kept when within the window
KeepDateWindow(df) ==
  LET i == ColIndex(df, <<"r", "e", "c", "e", "i", "v", "e", "d", "_", "d", "a", "t", "e">>)
      parsed == SetCol(df, i, LAMBDA row : ToDatetime(row[i]))
  IN Where(parsed, LAMBDA row :
        row[i].t = "date" /\ DateLeq(WindowStart, row[i]) /\ DateLeq(row[i], WindowEnd))

\* df.rename(columns={'soc_code': 'job_code', 'soc_title': 'occupation_title'})
RenameH1B(df) ==
  [columns |-> RenameCol(RenameCol(df.columns, <<"s", "o", "c", "_", "c", "o", "d", "e">>, <<"j", "o", "b", "_", "c", "o", "d", "e">>),
                         <<"s", "o", "c", "_", "t", "i", "t", "l", "e">>, <<"o", "c", "c", "u", "p", "a", "t", "i", "o", "n", "_", "t", "i", "t", "l", "e">>),
   rows |-> df.rows]

\* job_code standardized, then dropna(subset=['job_code'])
StandardizeJobCodes(df) ==
  LET i == ColIndex(df, <<"j", "o", "b", "_", "c", "o", "d", "e">>)
      coded == SetCol(df, i, LAMBDA row : StandardizeCode(row[i]))
  IN Where(coded, LAMBDA row : ~IsNull(row[i]))

\* df['annual_wage'] = df.apply(standardize_wage, axis=1)
AddAnnualWage(df) ==
  LET w == ColIndex(df, <<"w", "a", "g", "e", "_", "r", "a", "t", "e", "_", "o", "f", "_", "p", "a", "y", "_", "f", "r", "o", "m">>)
      u == ColIndex(df, <<"w", "a", "g", "e", "_", "u", "n", "i", "t", "_", "o", "f", "_", "p", "a", "y">>)
  IN AddCol(df, <<"a", "n", "n", "u", "a", "l", "_", "w", "a", "g", "e">>, LAMBDA row : standardize_wage(row[w], row[u]))

\* df[(df['annual_wage'] >= 20000) & (df['annual_wage'] <= 300000)]
RemoveOutliers(df) ==
  LET i == ColIndex(df, <<"a", "n", "n", "u", "a", "l", "_", "w", "a", "g", "e">>)
  IN Where(df, LAMBDA row : InWageRange(row[i]))

\* transform_h1b_data up to and including the outlier filter: whether it
\* raised, the header the caller's table is left with (df.columns is assigned
\* in place, before any column is read), and the rows that reach the grouping.
\* Reading a column the table does not have raises KeyError; so does a unit
\* that standardize_wage cannot lower-case.
h1b_filtered(df) ==
  LET cols == NormalizeColumns(df.columns)
      d0 == [columns |-> cols, rows |-> df.rows]
      d4a == RenameH1B(d0)
  IN IF \/ ~HasCol(d0, <<"c", "a", "s", "e", "_", "s", "t", "a", "t", "u", "s">>)
        \/ ~HasCol(d0, <<"e", "m", "p", "l", "o", "y", "e", "r", "_", "n", "a", "m", "e">>)
        \/ ~HasCol(d0, <<"r", "e", "c", "e", "i", "v", "e", "d", "_", "d", "a", "t", "e">>)
        \/ ~HasCol(d4a, <<"j", "o", "b", "_", "c", "o", "d", "e">>)
        \/ ~HasCol(d4a, <<"w", "a", "g", "e", "_", "r", "a", "t", "e", "_", "o", "f", "_", "p", "a", "y", "_", "f", "r", "o", "m">>)
        \/ ~HasCol(d4a, <<"w", "a", "g", "e", "_", "u", "n", "i", "t", "_", "o", "f", "_", "p", "a", "y">>)
     THEN [raised |-> TRUE, columns |-> cols]
     ELSE LET d5 == AddAnnualWage(StandardizeJobCodes(RenameH1B(
                      KeepDateWindow(KeepTargetCompanies(KeepCertified(d0))))))
          IN IF \E r \in 1..Len(d5.rows) : d5.rows[r][Len(d5.columns)] = Raised
             THEN [raised |-> TRUE, columns |-> cols]
             ELSE [raised |-> FALSE, columns |-> cols, out |-> RemoveOutliers(d5)]

\* The result of transform_h1b_data(df): the filtered rows, grouped by
\* employer_name, job_code and occupation_title, with the mean annual wage.
transform_h1b_data(df) ==
  LET f == h1b_filtered(df)
  IN IF f.raised \/ ~HasCol(f.out, <<"o", "c", "c", "u", "p", "a", "t", "i", "o", "n", "_", "t", "i", "t", "l", "e">>)
     THEN [raised |-> TRUE, columns |-> f.columns]
     ELSE [raised |-> FALSE, columns |-> f.columns,
           out |-> GroupByMean(f.out, <<<<"e", "m", "p", "l", "o", "y", "e", "r", "_", "n", "a", "m", "e">>, <<"j", "o", "b", "_", "c", "o", "d", "e">>, <<"o", "c", "c", "u", "p", "a", "t", "i", "o", "n", "_", "t", "i", "t", "l", "e">>>>,
                               <<"a", "n", "n", "u", "a", "l", "_", "w", "a", "g", "e">>)]

\* the code universe taken from the raw table, before any filter
unique_job_codes_Raw(df) ==
  LET i == ColIndex(h1b_df, <<"s", "o", "c", "_", "c", "o", "d", "e">>)
  IN {StandardizeCode(h1b_df.rows[r][i]) : r \in 1..Len(h1b_df.rows)}

\* h1b_transformed['job_code'].unique()
unique_job_codes(df) == JobCodes(df)

\* --------------------------------------------------- transform_oews_data
\* df.rename(columns={...}) of transform_oews_data
RenameOews(df) ==
  [columns |-> RenameCol(RenameCol(RenameCol(df.columns,
                  <<"w", "a", "s", "h", "i", "n", "g", "t", "o", "n", "_", "s", "t", "a", "t", "e", "w", "i", "d", "e", "_", "o", "c", "c", "u", "p", "a", "t", "i", "o", "n", "a", "l", "_", "t", "i", "t", "l", "e">>, <<"o", "c", "c", "u", "p", "a", "t", "i", "o", "n", "_", "t", "i", "t", "l", "e">>),
                  <<"s", "o", "c", "_", "c", "o", "d", "e">>, <<"j", "o", "b", "_", "c", "o", "d", "e">>),
                  <<"a", "n", "n", "u", "a", "l", "_", "m", "e", "a", "n", "_", "w", "a", "g", "e">>, <<"a", "v", "g", "_", "l", "o", "c", "a", "l", "_", "w", "a", "g", "e">>),
   rows |-> df.rows]

\* avg_local_wage converted with pd.to_numeric(errors='coerce'), then
\* dropna(subset=['avg_local_wage'])
NumericLocalWage(df) ==
  LET i == ColIndex(df, <<"a", "v", "g", "_", "l", "o", "c", "a", "l", "_", "w", "a", "g", "e">>)
      numeric == SetCol(df, i, LAMBDA row : ToNumeric(row[i]))
  IN Where(numeric, LAMBDA row : ~IsNull(row[i]))

\* df[df['job_code'].isin(relevant_job_codes)]
KeepRelevantCodes(df, codes) ==
  LET i == ColIndex(df, <<"j", "o", "b", "_", "c", "o", "d", "e">>)
  IN Where(df, LAMBDA row : row[i] \in codes)

\* The result of transform_oews_data(df, relevant_job_codes), as for
\* transform_h1b_data.
transform_oews_data(df, codes) ==
  LET cols == NormalizeColumns(df.columns)
      d1 == RenameOews([columns |-> cols, rows |-> df.rows])
  IN IF \/ ~HasCol(d1, <<"j", "o", "b", "_", "c", "o", "d", "e">>)
        \/ ~HasCol(d1, <<"a", "v", "g", "_", "l", "o", "c", "a", "l", "_", "w", "a", "g", "e">>)
        \/ ~HasCol(d1, <<"o", "c", "c", "u", "p", "a", "t", "i", "o", "n", "_", "t", "i", "t", "l", "e">>)
     THEN [raised |-> TRUE, columns |-> cols]
     ELSE [raised |-> FALSE, columns |-> cols,
           out |-> Project(KeepRelevantCodes(NumericLocalWage(StandardizeJobCodes(d1)), codes),
                           <<<<"o", "c", "c", "u", "p", "a", "t", "i", "o", "n", "_", "t", "i", "t", "l", "e">>, <<"j", "o", "b", "_", "c", "o", "d", "e">>, <<"a", "v", "g", "_", "l", "o", "c", "a", "l", "_", "w", "a", "g", "e">>>>)]

\* -------------------------------------------------------- merge_datasets
\* the difference taken the other way round
WageDiff_Swapped(annual_wage, avg_local_wage) ==
  LET a == ToNumeric(annual_wage)
      b == ToNumeric(avg_local_wage)
  IN IF IsNum(a) /\ IsNum(b) THEN RSub(b, a) ELSE NaN

\* pd.to_numeric(annual_wage) - pd.to_numeric(avg_local_wage): NaN as soon
\* as one side is not a number
WageDiff(annual_wage, avg_local_wage) ==
  LET a == ToNumeric(annual_wage)
      b == ToNumeric(avg_local_wage)
  IN IF IsNum(a) /\ IsNum(b) THEN RSub(a, b) ELSE NaN

\* a join that pairs a left row with every right row
Matches_All(lrow, right_rows) == right_rows

\* the rows of the right table that one left row is paired with: those with
\* the same job_code (the first column of both selections)
Matches(lrow, right_rows) == SelectSeq(right_rows, LAMBDA rrow : rrow[1] = lrow[1])

RECURSIVE InnerJoin(_, _)
\* left.merge(right, on='job_code', how='inner'): the left rows in order,
\* each with its matching right rows in order
InnerJoin(left_rows, right_rows) ==
  IF left_rows = <<>> THEN <<>>
  ELSE LET m == Matches(left_rows[1], right_rows)
       IN [j \in 1..Len(m) |-> Append(left_rows[1], m[j][2])]
          \o InnerJoin(Tail(left_rows), right_rows)

merge_datasets(h1b, oews) ==
  LET h1b_selected == Project(h1b, <<<<"j", "o", "b", "_", "c", "o", "d", "e">>, <<"o", "c", "c", "u", "p", "a", "t", "i", "o", "n", "_", "t", "i", "t", "l", "e">>, <<"a", "n", "n", "u", "a", "l", "_", "w", "a", "g", "e">>,
                                     <<"e", "m", "p", "l", "o", "y", "e", "r", "_", "n", "a", "m", "e">>>>)
      oews_selected == Project(oews, <<<<"j", "o", "b", "_", "c", "o", "d", "e">>, <<"a", "v", "g", "_", "l", "o", "c", "a", "l", "_", "w", "a", "g", "e">>>>)
      merged == [columns |-> Append(h1b_selected.columns, <<"a", "v", "g", "_", "l", "o", "c", "a", "l", "_", "w", "a", "g", "e">>),
                 rows |-> InnerJoin(h1b_selected.rows, oews_selected.rows)]
      a == ColIndex(merged, <<"a", "n", "n", "u", "a", "l", "_", "w", "a", "g", "e">>)
      b == ColIndex(merged, <<"a", "v", "g", "_", "l", "o", "c", "a", "l", "_", "w", "a", "g", "e">>)
  IN AddCol(merged, <<"w", "a", "g", "e", "_", "d", "i", "f", "f">>, LAMBDA row : WageDiff(row[a], row[b]))

\* save_to_database(df, db_name, table_name): the table is written,
\* replacing one of the same name
save_to_database(tables, table_name) == tables \cup {table_name}

\* ------------------------------------------------------------------ inputs
H1BHeader ==
  <<<<"C", "A", "S", "E", "_", "S", "T", "A", "T", "U", "S">>, <<"E", "M", "P", "L", "O", "Y", "E", "R", "_", "N", "A", "M", "E">>, <<"R", "E", "C", "E", "I", "V", "E", "D", "_", "D", "A", "T", "E">>, <<"S", "O", "C", "_", "C", "O", "D", "E">>, <<"S", "O", "C", "_", "T", "I", "T", "L", "E">>,
    <<"W", "A", "G", "E", "_", "R", "A", "T", "E", "_", "O", "F", "_", "P", "A", "Y", "_", "F", "R", "O", "M">>, <<"W", "A", "G", "E", "_", "U", "N", "I", "T", "_", "O", "F", "_", "P", "A", "Y">>>>

\* a disclosure file without the SOC_CODE column
H1BHeaderNoCode ==
  <<<<"C", "A", "S", "E", "_", "S", "T", "A", "T", "U", "S">>, <<"E", "M", "P", "L", "O", "Y", "E", "R", "_", "N", "A", "M", "E">>, <<"R", "E", "C", "E", "I", "V", "E", "D", "_", "D", "A", "T", "E">>, <<"N", "A", "I", "C", "S", "_", "C", "O", "D", "E">>, <<"S", "O", "C", "_", "T", "I", "T", "L", "E">>,
    <<"W", "A", "G", "E", "_", "R", "A", "T", "E", "_", "O", "F", "_", "P", "A", "Y", "_", "F", "R", "O", "M">>, <<"W", "A", "G", "E", "_", "U", "N", "I", "T", "_", "O", "F", "_", "P", "A", "Y">>>>

H1BHeaders == {H1BHeader, H1BHeaderNoCode}

InWindow == Date(2023, 5, 1)

\* rows of the raw H1B table: status, employer, received date, SOC code,
\* SOC title, wage, unit of pay
H1BRows ==
  { <<Str(<<"C", "e", "r", "t", "i", "f", "i", "e", "d", " ">>), Str(<<"M", "i", "c", "r", "o", "s", "o", "f", "t">>), Date(2023, 4, 1), Str(<<"1", "5", "-", "1", ".", "0", "0">>),
      Str(<<"D", "e", "v">>), Int1(60), Str(<<"H", "o", "u", "r">>)>>,
    <<Str(<<"C", "E", "R", "T", "I", "F", "I", "E", "D">>), Str(<<"M", "i", "c", "r", "o", "s", "o", "f", "t">>), Str(<<"2", "0", "2", "3", "-", "0", "6", "-", "3", "0">>), Str(<<" ", "1", "5", "-", "1", " ">>),
      Str(<<"D", "e", "v">>), Int1(100001), Str(<<"Y", "e", "a", "r">>)>>,
    <<Str(<<"C", "E", "R", "T", "I", "F", "I", "E", "D">>), Str(<<"M", "i", "c", "r", "o", "s", "o", "f", "t">>), InWindow, Str(<<"1", "5", "-", "1", ".", "0", "0">>),
      Str(<<"E", "n", "g">>), Int1(2000), Str(<<"w", "e", "e", "k">>)>>,
    <<Str(<<"C", "E", "R", "T", "I", "F", "I", "E", "D">>), Str(<<"G", "O", "O", "G", "L", "E", " ", "L", "L", "C">>), InWindow, Str(<<"1", "5", "-", "1", ".", "0", "0">>),
      Str(<<"D", "e", "v">>), Int1(25000), Str(<<"M", "O", "N", "T", "H">>)>>,
    <<Str(<<"C", "E", "R", "T", "I", "F", "I", "E", "D">>), Str(<<"M", "i", "c", "r", "o", "s", "o", "f", "t">>), InWindow, NaN,
      Str(<<"D", "e", "v">>), Int1(100000), NaN>>,
    <<Str(<<"C", "E", "R", "T", "I", "F", "I", "E", "D">>), Str(<<"M", "i", "c", "r", "o", "s", "o", "f", "t">>), InWindow, Str(<<" ", ".", "5">>),
      Str(<<"D", "e", "v">>), Int1(20000), Str(<<"y", "e", "a", "r">>)>>,
    <<Str(<<"C", "E", "R", "T", "I", "F", "I", "E", "D">>), Str(<<"M", "i", "c", "r", "o", "s", "o", "f", "t">>), InWindow, Str(<<"1", "5", "-", "2">>),
      NaN, Int1(100000), Str(<<"Y", "e", "a", "r">>)>>,
    <<Str(<<"C", "E", "R", "T", "I", "F", "I", "E", "D">>), Str(<<"M", "i", "c", "r", "o", "s", "o", "f", "t">>), InWindow, Str(<<"1", "5", "-", "2">>),
      Str(<<"D", "e", "v">>), Int1(60), Str(<<" ", "h", "o", "u", "r">>)>>,
    <<Str(<<"D", "E", "N", "I", "E", "D">>), Str(<<"M", "i", "c", "r", "o", "s", "o", "f", "t">>), InWindow, Str(<<"1", "5", "-", "1", ".", "0", "0">>),
      Str(<<"D", "e", "v">>), Int1(100000), Str(<<"Y", "e", "a", "r">>)>>,
    <<Str(<<"C", "E", "R", "T", "I", "F", "I", "E", "D">>), Str(<<"A", "c", "m", "e">>), Str(<<"u", "n", "k", "n", "o", "w", "n">>), Str(<<"1", "5", "-", "1", ".", "0", "0">>),
      Str(<<"D", "e", "v">>), Int1(100000), Str(<<"Y", "e", "a", "r">>)>> }

OewsHeader == <<<<"S", "O", "C", " ", "c", "o", "d", "e">>, <<"W", "a", "s", "h", "i", "n", "g", "t", "o", "n", " ", "s", "t", "a", "t", "e", "w", "i", "d", "e", " ", "o", "c", "c", "u", "p", "a", "t", "i", "o", "n", "a", "l", " ", "t", "i", "t", "l", "e">>, <<"A", "n", "n", "u", "a", "l", " ", "m", "e", "a", "n", " ", "w", "a", "g", "e">>>>

\* a survey sheet that reports the median instead of the mean wage
OewsHeaderNoMean == <<<<"S", "O", "C", " ", "c", "o", "d", "e">>, <<"W", "a", "s", "h", "i", "n", "g", "t", "o", "n", " ", "s", "t", "a", "t", "e", "w", "i", "d", "e", " ", "o", "c", "c", "u", "p", "a", "t", "i", "o", "n", "a", "l", " ", "t", "i", "t", "l", "e">>, <<"A", "n", "n", "u", "a", "l", " ", "m", "e", "d", "i", "a", "n", " ", "w", "a", "g", "e">>>>

OewsHeaders == {OewsHeader, OewsHeaderNoMean}

\* rows of the raw OEWS table: SOC code, occupational title, annual mean wage
OewsRows ==
  { <<Str(<<"1", "5", "-", "1">>), Str(<<"D", "e", "v", "s">>), Int1(95000)>>,
    <<Str(<<"1", "5", "-", "1", ".", "0", "0">>), Str(<<"D", "e", "v", "s">>), Int1(15000)>>,
    <<Str(<<"1", "5", "-", "2">>), Str(<<"E", "n", "g", "s">>), Str(<<"1", "1", "0", "0", "0", "0">>)>>,
    <<Str(<<"1", "5", "-", "3">>), Str(<<"O", "t", "h", "e", "r">>), Str(<<"*">>)>>,
    <<NaN, Str(<<"T", "o", "t", "a", "l">>), Int1(90000)>> }

\* the sequences of at most n elements of S
SeqsUpTo(S, n) == UNION {[1..k -> S] : k \in 0..n}

H1BTables == {[columns |-> h, rows |-> rs] : h \in H1BHeaders, rs \in SeqsUpTo(H1BRows, MaxH1BRows)}

OewsTables == {[columns |-> h, rows |-> rs] : h \in OewsHeaders, rs \in SeqsUpTo(OewsRows, MaxOewsRows)}

\* tables handed directly to merge_datasets
MergeH1BHeader == <<<<"e", "m", "p", "l", "o", "y", "e", "r", "_", "n", "a", "m", "e">>, <<"j", "o", "b", "_", "c", "o", "d", "e">>, <<"o", "c", "c", "u", "p", "a", "t", "i", "o", "n", "_", "t", "i", "t", "l", "e">>, <<"a", "n", "n", "u", "a", "l", "_", "w", "a", "g", "e">>>>

MergeH1BRows ==
  { <<Str(<<"M", "i", "c", "r", "o", "s", "o", "f", "t">>), Str(<<"1", "5", "-", "1">>), Str(<<"D", "e", "v">>), Int1(100000)>>,
    <<Str(<<"G", "O", "O", "G", "L", "E", " ", "L", "L", "C">>), Str(<<"1", "5", "-", "1">>), Str(<<"D", "e", "v">>), Num(224801, 2)>>,
    <<Str(<<"M", "i", "c", "r", "o", "s", "o", "f", "t">>), Str(<<"1", "5", "-", "2">>), Str(<<"E", "n", "g">>), Str(<<"u", "n", "k", "n", "o", "w", "n">>)>>,
    <<Str(<<"M", "i", "c", "r", "o", "s", "o", "f", "t">>), Str(<<"1", "5", "-", "2">>), Str(<<"D", "e", "v">>), Str(<<"1", "2", "0", "0", "0", "0">>)>>,
    <<Str(<<"M", "i", "c", "r", "o", "s", "o", "f", "t">>), Str(<<"1", "5", "-", "4">>), Str(<<"D", "e", "v">>), Int1(50000)>>,
    <<Str(<<"M", "i", "c", "r", "o", "s", "o", "f", "t">>), NaN, Str(<<"D", "e", "v">>), Int1(70000)>> }

MergeOewsHeader == <<<<"o", "c", "c", "u", "p", "a", "t", "i", "o", "n", "_", "t", "i", "t", "l", "e">>, <<"j", "o", "b", "_", "c", "o", "d", "e">>, <<"a", "v", "g", "_", "l", "o", "c", "a", "l", "_", "w", "a", "g", "e">>>>

MergeOewsRows ==
  { <<Str(<<"D", "e", "v", "s">>), Str(<<"1", "5", "-", "1">>), Int1(95000)>>,
    <<Str(<<"D", "e", "v", "s">>), Str(<<"1", "5", "-", "1">>), Int1(15000)>>,
    <<Str(<<"E", "n", "g", "s">>), Str(<<"1", "5", "-", "2">>), Int1(110000)>>,
    <<Str(<<"O", "t", "h", "e", "r">>), Str(<<"1", "5", "-", "3">>), Str(<<"*">>)>>,
    <<Str(<<"T", "o", "t", "a", "l">>), NaN, Int1(65000)>> }

\* inputs of standardize_wage
WageAmounts == {Int1(10), Int1(1000), Int1(5000), Int1(75000), NaN}

WageUnits ==
  { Str(<<"h", "o", "u", "r">>), Str(<<"H", "o", "u", "r">>), Str(<<"H", "O", "U", "R">>), Str(<<" ", "h", "o", "u", "r">>), Str(<<"h", "o", "u", "r", " ">>),
    Str(<<"w", "e", "e", "k">>), Str(<<"W", "e", "e", "k", " ">>), Str(<<"m", "o", "n", "t", "h">>), Str(<<"M", "O", "N", "T", "H">>), Str(<<"y", "e", "a", "r">>),
    Str(<<"Y", "e", "a", "r">>), Str(<<>>), Str(<<"f", "o", "r", "t", "n", "i", "g", "h", "t">>), Str(<<"b", "i", "-", "w", "e", "e", "k", "l", "y">>), Str(<<"h", "o", "u", "r", "l", "y">>), NaN }

\* ------------------------------------------------------------- the script
\* a name that is not bound yet
Unset == [columns |-> <<>>, rows |-> <<>>]

\* The script after parse_file: both raw tables are in memory.
Init ==
  /\ h1b_df \in H1BTables
  /\ oews_df \in OewsTables
  /\ h1b_transformed = Unset
  /\ relevant_job_codes = {}
  /\ oews_transformed = Unset
  /\ final_df = Unset
  /\ db = {}
  /\ pc = "start"
  /\ wage_row = <<NaN, NaN>>
  /\ annual = NaN

\* h1b_transformed = transform_h1b_data(h1b_df)
TransformH1B ==
  /\ pc = "start"
  /\ \E res \in {transform_h1b_data(h1b_df)} :
        /\ h1b_df' = [h1b_df EXCEPT !.columns = res.columns]
        /\ IF res.raised
           THEN pc' = "failed" /\ UNCHANGED h1b_transformed
           ELSE pc' = "h1b_done" /\ h1b_transformed' = res.out
  /\ UNCHANGED <<oews_df, relevant_job_codes, oews_transformed, final_df, db, wage_row, annual>>

\* relevant_job_codes = h1b_transformed['job_code'].unique()
DeriveCodes ==
  /\ pc = "h1b_done"
  /\ relevant_job_codes' = unique_job_codes(h1b_transformed)
  /\ pc' = "codes_done"
  /\ UNCHANGED <<h1b_df, oews_df, h1b_transformed, oews_transformed, final_df, db, wage_row, annual>>

\* a script that saves the observation table as soon as it has it, before
\* the reference table is transformed
TransformOews_SaveFirst ==
  /\ pc = "codes_done"
  /\ db' = save_to_database(db, "h1b_roles")
  /\ \E res \in {transform_oews_data(oews_df, relevant_job_codes)} :
        /\ oews_df' = [oews_df EXCEPT !.columns = res.columns]
        /\ IF res.raised
           THEN pc' = "failed" /\ UNCHANGED oews_transformed
           ELSE pc' = "oews_done" /\ oews_transformed' = res.out
  /\ UNCHANGED <<h1b_df, h1b_transformed, relevant_job_codes, final_df, wage_row, annual>>

\* oews_transformed = transform_oews_data(oews_df, relevant_job_codes)
TransformOews ==
  /\ pc = "codes_done"
  /\ \E res \in {transform_oews_data(oews_df, relevant_job_codes)} :
        /\ oews_df' = [oews_df EXCEPT !.columns = res.columns]
        /\ IF res.raised
           THEN pc' = "failed" /\ UNCHANGED oews_transformed
           ELSE pc' = "oews_done" /\ oews_transformed' = res.out
  /\ UNCHANGED <<h1b_df, h1b_transformed, relevant_job_codes, final_df, db, wage_row, annual>>

\* final_df = merge_datasets(h1b_transformed, oews_transformed)
MergeDatasets ==
  /\ pc = "oews_done"
  /\ final_df' = merge_datasets(h1b_transformed, oews_transformed)
  /\ pc' = "merged"
  /\ UNCHANGED <<h1b_df, oews_df, h1b_transformed, relevant_job_codes, oews_transformed,
                 db, wage_row, annual>>

\* save_to_database(h1b_transformed, db_name, "h1b_roles")
SaveH1B ==
  /\ pc = "merged"
  /\ db' = save_to_database(db, "h1b_roles")
  /\ pc' = "saved_h1b"
  /\ UNCHANGED <<h1b_df, oews_df, h1b_transformed, relevant_job_codes, oews_transformed,
                 final_df, wage_row, annual>>

\* save_to_database(oews_transformed, db_name, "oews_roles")
SaveOews ==
  /\ pc = "saved_h1b"
  /\ db' = save_to_database(db, "oews_roles")
  /\ pc' = "saved_oews"
  /\ UNCHANGED <<h1b_df, oews_df, h1b_transformed, relevant_job_codes, oews_transformed,
                 final_df, wage_row, annual>>

\* save_to_database(final_df, db_name, "h1b_oews_combined")
SaveCombined ==
  /\ pc = "saved_oews"
  /\ db' = save_to_database(db, "h1b_oews_combined")
  /\ pc' = "done"
  /\ UNCHANGED <<h1b_df, oews_df, h1b_transformed, relevant_job_codes, oews_transformed,
                 final_df, wage_row, annual>>

Next ==
  \/ TransformH1B
  \/ DeriveCodes
  \/ TransformOews
  \/ MergeDatasets
  \/ SaveH1B
  \/ SaveOews
  \/ SaveCombined

Spec == Init /\ [][Next]_vars

\* merge_datasets called on any pair of tables
InitMerge ==
  /\ h1b_df = Unset
  /\ oews_df = Unset
  /\ h1b_transformed \in {[columns |-> MergeH1BHeader, rows |-> rs] :
                            rs \in SeqsUpTo(MergeH1BRows, MaxMergeRows)}
  /\ relevant_job_codes = {}
  /\ oews_transformed \in {[columns |-> MergeOewsHeader, rows |-> rs] :
                             rs \in SeqsUpTo(MergeOewsRows, MaxMergeRows)}
  /\ final_df = Unset
  /\ db = {}
  /\ pc = "oews_done"
  /\ wage_row = <<NaN, NaN>>
  /\ annual = NaN

SpecMerge == InitMerge /\ [][MergeDatasets]_vars

\* standardize_wage called on any wage and unit
InitWage ==
  /\ h1b_df = Unset
  /\ oews_df = Unset
  /\ h1b_transformed = Unset
  /\ relevant_job_codes = {}
  /\ oews_transformed = Unset
  /\ final_df = Unset
  /\ db = {}
  /\ pc = "wage_call"
  /\ wage_row \in {<<w, u>> : w \in WageAmounts, u \in WageUnits}
  /\ annual = NaN

\* df.apply(standardize_wage, axis=1) on one row
StandardizeWage ==
  /\ pc = "wage_call"
  /\ annual' = standardize_wage(wage_row[1], wage_row[2])
  /\ pc' = "wage_ret"
  /\ UNCHANGED <<h1b_df, oews_df, h1b_transformed, relevant_job_codes, oews_transformed,
                 final_df, db, wage_row>>

SpecWage == InitWage /\ [][StandardizeWage]_vars
\* ------------------------------------------------------------------ claims
\* the cell of a row in a named column
Cell(df, r, name) == df.rows[r][ColIndex(df, name)]

Rows(df) == 1..Len(df.rows)

\* a cell pd.to_numeric reads as a number
Numeric(c) == IsNum(ToNumeric(c))

\* C1, as stated: in every row of the table returned by merge_datasets,
\* annual_wage and avg_local_wage are numbers (or missing) and wage_diff is
\* their difference.
C1_WageDiffEveryRow ==
  pc = "merged" =>
    \A r \in Rows(final_df) :
      LET a == Cell(final_df, r, <<"a", "n", "n", "u", "a", "l", "_", "w", "a", "g", "e">>)
          b == Cell(final_df, r, <<"a", "v", "g", "_", "l", "o", "c", "a", "l", "_", "w", "a", "g", "e">>)
          d == Cell(final_df, r, <<"w", "a", "g", "e", "_", "d", "i", "f", "f">>)
      IN /\ Numeric(a) \/ IsNull(a)
         /\ Numeric(b) \/ IsNull(b)
         /\ IF Numeric(a) /\ Numeric(b) THEN d = RSub(ToNumeric(a), ToNumeric(b))
            ELSE IsNull(d)

\* C1, amended: in every row of the table returned by merge_datasets whose
\* annual_wage and avg_local_wage are both numeric, wage_diff is annual_wage
\* minus avg_local_wage; in a row where one of them is not numeric, wage_diff
\* is null.
C1_WageDiff ==
  pc = "merged" =>
    \A r \in Rows(final_df) :
      LET a == Cell(final_df, r, <<"a", "n", "n", "u", "a", "l", "_", "w", "a", "g", "e">>)
          b == Cell(final_df, r, <<"a", "v", "g", "_", "l", "o", "c", "a", "l", "_", "w", "a", "g", "e">>)
          d == Cell(final_df, r, <<"w", "a", "g", "e", "_", "d", "i", "f", "f">>)
      IN IF Numeric(a) /\ Numeric(b)
         THEN IsNum(d) /\ d.n * ToNumeric(a).d * ToNumeric(b).d
                          = d.d * (ToNumeric(a).n * ToNumeric(b).d - ToNumeric(b).n * ToNumeric(a).d)
         ELSE IsNull(d)

\* a merged table with a non-zero difference in one row and a non-numeric
\* annual_wage in another
C1_Witness ==
  /\ pc = "merged"
  /\ \E r \in Rows(final_df) :
       /\ IsNum(Cell(final_df, r, <<"a", "n", "n", "u", "a", "l", "_", "w", "a", "g", "e">>))
       /\ IsNum(Cell(final_df, r, <<"w", "a", "g", "e", "_", "d", "i", "f", "f">>))
       /\ Cell(final_df, r, <<"w", "a", "g", "e", "_", "d", "i", "f", "f">>).n # 0
  /\ \E r \in Rows(final_df) :
       /\ IsStr(Cell(final_df, r, <<"a", "n", "n", "u", "a", "l", "_", "w", "a", "g", "e">>))
       /\ ~Numeric(Cell(final_df, r, <<"a", "n", "n", "u", "a", "l", "_", "w", "a", "g", "e">>))

\* an occupation code that is missing: null, or empty after cutting at the
\* first '.' and trimming
MissingCode(c) == IsNull(c) \/ (IsStr(c) /\ Strip(SplitDot0(c.s)) = <<>>)

\* the canonical codes of the raw rows whose code is not missing
PresentCodes(raw) ==
  {Str(Strip(SplitDot0(Cell(raw, r, <<"s", "o", "c", "_", "c", "o", "d", "e">>).s))) :
     r \in {q \in Rows(raw) : ~MissingCode(Cell(raw, q, <<"s", "o", "c", "_", "c", "o", "d", "e">>))}}

\* C2: a row whose occupation code is missing is dropped by both transforms:
\* every job_code of the two returned tables and of the combined table is
\* the canonical code of an input row that has a code.
C2_MissingCodesDropped ==
  /\ h1b_transformed # Unset => JobCodes(h1b_transformed) \subseteq PresentCodes(h1b_df)
  /\ oews_transformed # Unset => JobCodes(oews_transformed) \subseteq PresentCodes(oews_df)
  /\ final_df # Unset => JobCodes(final_df) \subseteq PresentCodes(h1b_df)

\* C3: every row of the table returned by transform_h1b_data, after the
\* grouping, has 20000 <= annual_wage <= 300000.
C3_AnnualWageInRange ==
  h1b_transformed # Unset =>
    \A r \in Rows(h1b_transformed) :
      LET w == Cell(h1b_transformed, r, <<"a", "n", "n", "u", "a", "l", "_", "w", "a", "g", "e">>)
      IN /\ w.t = "num"
         /\ 20000 * w.d <= w.n
         /\ w.n <= 300000 * w.d

\* a returned row whose wage is the mean of two different wages
C3_Witness ==
  /\ pc = "h1b_done"
  /\ \E r \in Rows(h1b_transformed) : Cell(h1b_transformed, r, <<"a", "n", "n", "u", "a", "l", "_", "w", "a", "g", "e">>).d = 2

\* C4: every row of the table returned by transform_oews_data has
\* 20000 <= avg_local_wage <= 300000.
C4_LocalWageInRange ==
  oews_transformed # Unset =>
    \A r \in Rows(oews_transformed) :
      LET w == Cell(oews_transformed, r, <<"a", "v", "g", "_", "l", "o", "c", "a", "l", "_", "w", "a", "g", "e">>)
      IN /\ w.t = "num"
         /\ 20000 * w.d <= w.n
         /\ w.n <= 300000 * w.d

\* C5: the table returned by transform_h1b_data has exactly one row for each
\* (employer_name, job_code) of the rows that survived the filters.
C5_OneRowPerKey ==
  h1b_transformed # Unset =>
    LET survived == h1b_filtered(h1b_df).out
    IN \A s \in Rows(survived) :
         Cardinality({r \in Rows(h1b_transformed) :
                        /\ Cell(h1b_transformed, r, <<"e", "m", "p", "l", "o", "y", "e", "r", "_", "n", "a", "m", "e">>)
                             = Cell(survived, s, <<"e", "m", "p", "l", "o", "y", "e", "r", "_", "n", "a", "m", "e">>)
                        /\ Cell(h1b_transformed, r, <<"j", "o", "b", "_", "c", "o", "d", "e">>)
                             = Cell(survived, s, <<"j", "o", "b", "_", "c", "o", "d", "e">>)}) = 1

\* C6: after a full run the combined table has no two rows with the same
\* job_code.
C6_UniqueJobCodes ==
  final_df # Unset =>
    \A r1, r2 \in Rows(final_df) :
      r1 # r2 => Cell(final_df, r1, <<"j", "o", "b", "_", "c", "o", "d", "e">>) # Cell(final_df, r2, <<"j", "o", "b", "_", "c", "o", "d", "e">>)

\* the annualization of the specification: the unit is matched trimmed and
\* without regard to case, and any other unit leaves the amount unchanged
Annualize(amount, unit) ==
  LET u == IF IsStr(unit) THEN Lower(Strip(unit.s)) ELSE <<>>
  IN IF u = <<"h", "o", "u", "r">> THEN Times(amount, 2080)
     ELSE IF u = <<"w", "e", "e", "k">> THEN Times(amount, 52)
     ELSE IF u = <<"m", "o", "n", "t", "h">> THEN Times(amount, 12)
     ELSE amount

\* C7: standardize_wage returns amount*2080 for 'hour', amount*52 for 'week',
\* amount*12 for 'month' and the amount for 'year', the unit matched without
\* regard to case and after trimming; for any other unit it returns the
\* amount, and it never raises.
C7_Annualize ==
  pc = "wage_ret" => annual # Raised /\ annual = Annualize(wage_row[1], wage_row[2])

\* C8: a job_code is in the table returned by merge_datasets if and only if
\* it is in both input tables.
C8_InnerJoin ==
  pc = "merged" =>
    JobCodes(final_df) = JobCodes(h1b_transformed) \cap JobCodes(oews_transformed)

\* a join with matched rows and with unmatched rows on both sides
C8_Witness ==
  /\ pc = "merged"
  /\ final_df.rows # <<>>
  /\ JobCodes(h1b_transformed) \ JobCodes(oews_transformed) # {}
  /\ JobCodes(oews_transformed) \ JobCodes(h1b_transformed) # {}

\* C9: neither transform changes the table it is given: no step of the
\* script changes the column names or the rows of a raw table.
C9_InputsNotMutated == [][h1b_df' = h1b_df /\ oews_df' = oews_df]_vars

\* C10: the code universe is derived only once transform_h1b_data has
\* returned, and every job_code of the table returned by transform_oews_data
\* occurs in the table returned by transform_h1b_data.
C10_ReferenceCodesFromObservations ==
  /\ h1b_transformed = Unset => relevant_job_codes = {} /\ oews_transformed = Unset
  /\ oews_transformed # Unset =>
       JobCodes(oews_transformed) \subseteq JobCodes(h1b_transformed)

\* the reference table came back with a row, for one of several observed codes
C10_Witness ==
  /\ pc = "oews_done"
  /\ oews_transformed.rows # <<>>
  /\ Cardinality(JobCodes(h1b_transformed)) > 1

\* C11: when a stage of the run fails, the run ends there and none of the
\* three tables has been written; a table is written only in a run whose
\* observation transform, reference transform and merge all completed.
C11_NoPartialOutput ==
  /\ pc = "failed" =>
       /\ db = {}
       /\ final_df = Unset
       /\ h1b_transformed = Unset => relevant_job_codes = {} /\ oews_transformed = Unset
  /\ db # {} =>
       /\ pc \in {"saved_h1b", "saved_oews", "done"}
       /\ h1b_transformed # Unset
       /\ oews_transformed # Unset
       /\ final_df # Unset

\* a run that failed in the reference transform, after the observation
\* transform had returned its table
C11_Witness ==
  /\ pc = "failed"
  /\ h1b_transformed # Unset
  /\ h1b_transformed.rows # <<>>
  /\ oews_transformed = Unset
====
